---- MODULE Spec2Model ----
(***************************************************************************)
(* Model of event-master's src/main.py: a batch tool that reads a CSV of   *)
(* event attendances, aggregates it into an overall schedule and one       *)
(* personal schedule per person, and writes one PDF document per schedule. *)
(*                                                                         *)
(* Text that the program parses or formats (the "Start time"/"End time"    *)
(* cells, the date headers, the durations) is a sequence of one-character  *)
(* strings; names (event, person, group, place) are opaque strings.        *)
(***************************************************************************)
EXTENDS Integers, Sequences, FiniteSets, TLC

VARIABLES
    input_file,          \* the rows of the CSV file named by args.input_filepath
    pc,                  \* position of the main sequence
    row_idx,             \* number of rows the loop of get_schedules has consumed
    events_by_name,      \* get_schedules' dict, in insertion order
    schedules_by_person, \* get_schedules' dict, in insertion order
    all_events,          \* first component of get_schedules' result
    personal_schedules,  \* second component of get_schedules' result
    folder_created,      \* os.makedirs(args.output_folder) has succeeded
    files,               \* documents written so far, in order: [name, elements]
    written_idx,         \* number of personal schedules the final loop has written
    error                \* the exception that ended the run, or "none"

vars == <<input_file, pc, row_idx, events_by_name, schedules_by_person,
          all_events, personal_schedules, folder_created, files,
          written_idx, error>>

----------------------------------------------------------------------------
(* Bounds *)

MaxRows == 3

----------------------------------------------------------------------------
(* Characters and numbers *)

Digits == <<"0", "1", "2", "3", "4", "5", "6", "7", "8", "9">>

IsDigit(c) == \E i \in 1..10 : Digits[i] = c

DigitVal(c) == (CHOOSE i \in 1..10 : Digits[i] = c) - 1

IsSpace(c) == c = " "

\* int() of a non-empty run of digits
RECURSIVE IntOf(_)
IntOf(ds) ==
    IF Len(ds) = 0 THEN 0
    ELSE 10 * IntOf(SubSeq(ds, 1, Len(ds) - 1)) + DigitVal(ds[Len(ds)])

\* n as decimal digits, zero-padded to width w (strftime's %d %m %H %M %Y)
RECURSIVE Pad(_, _)
Pad(n, w) ==
    IF w = 0 THEN <<>>
    ELSE Pad(n \div 10, w - 1) \o <<Digits[(n % 10) + 1]>>

----------------------------------------------------------------------------
(* Formats: a format is a sequence of directives and literal characters *)

DATE_FORMAT == <<"%d", "/", "%m", "/", "%Y">>

TIME_FORMAT_colon == <<"%H", ":", "%M">>
TIME_FORMAT == <<"%H", ".", "%M">>

IsDirective(t) == t \in {"%d", "%m", "%Y", "%H", "%M"}

Field(t) ==
    CASE t = "%d" -> "day"
      [] t = "%m" -> "month"
      [] t = "%Y" -> "year"
      [] t = "%H" -> "hour"
      [] t = "%M" -> "minute"

\* The alternatives of a directive's regular expression, in the order the
\* regex tries them, as the candidate texts of length n at the cursor:
\*   %d  3[0-1]|[1-2]\d|0[1-9]|[1-9]| [1-9]
\*   %m  1[0-2]|0[1-9]|[1-9]
\*   %Y  \d\d\d\d
\*   %H  2[0-3]|[0-1]\d|\d
\*   %M  [0-5]\d|\d
AltWidths(t) ==
    CASE t = "%d" -> <<2, 1, 0>>      \* 0 stands for the " [1-9]" alternative
      [] t = "%m" -> <<2, 1>>
      [] t = "%Y" -> <<4>>
      [] t = "%H" -> <<2, 1>>
      [] t = "%M" -> <<2, 1>>

AllDigits(x) == \A i \in 1..Len(x) : IsDigit(x[i])

AltMatches(t, w, x) ==
    /\ Len(x) = (IF w = 0 THEN 2 ELSE w)
    /\ IF w = 0 THEN x[1] = " " /\ IsDigit(x[2]) /\ x[2] # "0"
       ELSE /\ AllDigits(x)
            /\ CASE t = "%d" -> IF w = 2 THEN IntOf(x) \in 1..31
                                ELSE IntOf(x) \in 1..9
                 [] t = "%m" -> IF w = 2 THEN IntOf(x) \in 1..12
                                ELSE IntOf(x) \in 1..9
                 [] t = "%Y" -> TRUE
                 [] t = "%H" -> IF w = 2 THEN IntOf(x) \in 0..23 ELSE TRUE
                 [] t = "%M" -> IF w = 2 THEN IntOf(x) \in 0..59 ELSE TRUE

AltValue(w, x) == IF w = 0 THEN DigitVal(x[2]) ELSE IntOf(x)

NoMatch == [ok |-> FALSE]

\* The number of whitespace characters of s from position pos on
RECURSIVE SpaceRun(_, _)
SpaceRun(s, pos) ==
    IF pos <= Len(s) /\ IsSpace(s[pos]) THEN 1 + SpaceRun(s, pos + 1) ELSE 0

\* re.match of the regex of fmt[k..] against s from position pos, with the
\* fields found so far: the first alternative (in order) after which the rest
\* of the format matches.  The result carries the end of the match.
RECURSIVE MatchFrom(_, _, _, _, _)
RECURSIVE TryAlts(_, _, _, _, _, _)
TryAlts(s, pos, fmt, k, got, a) ==
    LET t == fmt[k]
        alts == AltWidths(t)
    IN IF a > Len(alts) THEN NoMatch
       ELSE LET w == alts[a]
                n == IF w = 0 THEN 2 ELSE w
                x == IF pos + n - 1 <= Len(s)
                     THEN SubSeq(s, pos, pos + n - 1) ELSE <<>>
                rest == MatchFrom(s, pos + n, fmt, k + 1,
                                  [got EXCEPT ![Field(t)] = AltValue(w, x)])
            IN IF AltMatches(t, w, x) /\ rest.ok THEN rest
               ELSE TryAlts(s, pos, fmt, k, got, a + 1)

MatchFrom(s, pos, fmt, k, got) ==
    IF k > Len(fmt) THEN [ok |-> TRUE, end |-> pos, got |-> got]
    ELSE IF IsDirective(fmt[k]) THEN TryAlts(s, pos, fmt, k, got, 1)
    ELSE IF IsSpace(fmt[k])
         THEN \* whitespace in the format is \s+ in the regex
              IF SpaceRun(s, pos) >= 1
              THEN MatchFrom(s, pos + SpaceRun(s, pos), fmt, k + 1, got)
              ELSE NoMatch
    ELSE \* any other character is escaped and matches itself only
         IF pos <= Len(s) /\ s[pos] = fmt[k]
         THEN MatchFrom(s, pos + 1, fmt, k + 1, got)
         ELSE NoMatch

IsLeap(y) == (y % 4 = 0 /\ y % 100 # 0) \/ y % 400 = 0

DaysInMonth(y, m) ==
    IF m = 2 THEN (IF IsLeap(y) THEN 29 ELSE 28)
    ELSE IF m \in {4, 6, 9, 11} THEN 30 ELSE 31

\* strptime's defaults for the fields a format does not set
Epoch == [year |-> 1900, month |-> 1, day |-> 1, hour |-> 0, minute |-> 0]

\* datetime.strptime(s, fmt): the fields, or ok = FALSE for ValueError (no
\* match, unconverted data remains, or no such calendar day)
strptime(s, fmt) ==
    LET m == MatchFrom(s, 1, fmt, 1, Epoch)
    IN IF ~m.ok THEN NoMatch
       ELSE IF m.end # Len(s) + 1 THEN NoMatch
       ELSE IF m.got.year < 1 \/ m.got.day > DaysInMonth(m.got.year, m.got.month)
            THEN NoMatch
       ELSE [ok |-> TRUE, got |-> m.got]

get_datetime(date) == strptime(date, DATE_FORMAT \o <<" ">> \o TIME_FORMAT)

\* datetime.date() and datetime.time()
DateOf(dt) == <<dt.year, dt.month, dt.day>>
TimeOf(dt) == <<dt.hour, dt.minute>>

\* strftime, directive by directive
RECURSIVE strftime(_, _)
strftime(v, fmt) ==
    IF Len(fmt) = 0 THEN <<>>
    ELSE (IF IsDirective(fmt[1])
          THEN Pad(v[Field(fmt[1])], IF fmt[1] = "%Y" THEN 4 ELSE 2)
          ELSE <<fmt[1]>>) \o strftime(v, Tail(fmt))

get_date(date) ==
    strftime([year |-> date[1], month |-> date[2], day |-> date[3]], DATE_FORMAT)

get_time(time) == strftime([hour |-> time[1], minute |-> time[2]], TIME_FORMAT)

----------------------------------------------------------------------------
(* Schedule Sorter *)

\* Python's order on tuples of integers of equal length (date and time
\* objects compare as their fields do)
RECURSIVE TupleLess(_, _)
TupleLess(a, b) ==
    IF Len(a) = 0 THEN FALSE
    ELSE IF a[1] # b[1] THEN a[1] < b[1]
    ELSE TupleLess(Tail(a), Tail(b))

\* The sort key of get_events_sorted_by_time's lambda
SortKey_start_only(event) == event.start_time
SortKey(event) == event.date \o event.start_time

\* Insertion of e behind every element whose key is not greater: the place a
\* stable sort gives the last of the elements seen so far
RECURSIVE InsertSorted(_, _)
InsertSorted(sorted, e) ==
    IF Len(sorted) = 0 THEN <<e>>
    ELSE IF TupleLess(SortKey(e), SortKey(sorted[Len(sorted)]))
         THEN InsertSorted(SubSeq(sorted, 1, Len(sorted) - 1), e)
              \o <<sorted[Len(sorted)]>>
         ELSE Append(sorted, e)

\* sorted(events, key=...): Python's sort is stable
RECURSIVE get_events_sorted_by_time(_)
get_events_sorted_by_time(events) ==
    IF Len(events) = 0 THEN <<>>
    ELSE InsertSorted(
             get_events_sorted_by_time(SubSeq(events, 1, Len(events) - 1)),
             events[Len(events)])

----------------------------------------------------------------------------
(* Dictionaries keep insertion order: a dict is a sequence of entries *)

HasKey(dict, key) == \E i \in 1..Len(dict) : dict[i].key = key

IndexOf(dict, key) == CHOOSE i \in 1..Len(dict) : dict[i].key = key

Values(dict) == [i \in 1..Len(dict) |-> dict[i].value]

----------------------------------------------------------------------------
(* Event Aggregator and Personal Scheduler *)

EventKey_by_name(event_name, event_date, start_time, end_time, place) ==
    <<event_name>>
EventKey(event_name, event_date, start_time, end_time, place) ==
    <<event_name, event_date, start_time, end_time, place>>

add_event_dedup(event_name, events, person, group, event_date, start_time, end_time, place) ==
    LET key == EventKey(event_name, event_date, start_time, end_time, place)
        person_and_group == [name |-> person, group |-> group]
    IN IF ~HasKey(events, key)
       THEN Append(events,
                [key |-> key,
                 value |-> [name |-> event_name, date |-> event_date,
                            start_time |-> start_time, end_time |-> end_time,
                            place |-> place, people |-> <<person_and_group>>]])
       ELSE LET i == IndexOf(events, key)
            IN IF \E j \in 1..Len(events[i].value.people) :
                      events[i].value.people[j].name = person
               THEN events
               ELSE [events EXCEPT ![i].value.people = Append(@, person_and_group)]

add_event_widen(event_name, events, person, group, event_date, start_time, end_time, place) ==
    LET key == <<event_name, event_date, place>>
        person_and_group == [name |-> person, group |-> group]
    IN IF ~HasKey(events, key)
       THEN Append(events,
                [key |-> key,
                 value |-> [name |-> event_name, date |-> event_date,
                            start_time |-> start_time, end_time |-> end_time,
                            place |-> place, people |-> <<person_and_group>>]])
       ELSE LET i == IndexOf(events, key)
                old == events[i].value
            IN [events EXCEPT
                  ![i].value.start_time =
                      IF TupleLess(start_time, old.start_time) THEN start_time ELSE @,
                  ![i].value.end_time =
                      IF TupleLess(old.end_time, end_time) THEN end_time ELSE @,
                  ![i].value.people = Append(@, person_and_group)]

add_event(event_name, events, person, group, event_date, start_time, end_time, place) ==
    LET key == EventKey(event_name, event_date, start_time, end_time, place)
        person_and_group == [name |-> person, group |-> group]
    IN IF ~HasKey(events, key)
       THEN Append(events,
                [key |-> key,
                 value |-> [name |-> event_name, date |-> event_date,
                            start_time |-> start_time, end_time |-> end_time,
                            place |-> place, people |-> <<person_and_group>>]])
       ELSE LET i == IndexOf(events, key)
            IN [events EXCEPT ![i].value.people = Append(@, person_and_group)]

add_personal_event_replace(event_name, schedules, person, group, event_date, start_time, end_time, place) ==
    LET personal_event == [name |-> event_name, date |-> event_date,
                           start_time |-> start_time, end_time |-> end_time,
                           place |-> place, group |-> group]
    IN IF HasKey(schedules, person)
       THEN [schedules EXCEPT ![IndexOf(schedules, person)].value =
                                  <<personal_event>>]
       ELSE Append(schedules, [key |-> person, value |-> <<personal_event>>])

add_personal_event(event_name, schedules, person, group, event_date, start_time, end_time, place) ==
    LET personal_event == [name |-> event_name, date |-> event_date,
                           start_time |-> start_time, end_time |-> end_time,
                           place |-> place, group |-> group]
    IN IF HasKey(schedules, person)
       THEN [schedules EXCEPT ![IndexOf(schedules, person)].value =
                                  Append(@, personal_event)]
       ELSE Append(schedules, [key |-> person, value |-> <<personal_event>>])

\* The tuple get_schedules returns, from the two dictionaries
ScheduleResult(schedules) ==
    [i \in 1..Len(schedules) |->
        [person |-> schedules[i].key,
         events |-> get_events_sorted_by_time(schedules[i].value)]]

----------------------------------------------------------------------------
(* Document Builder *)

Range(seq) == {seq[i] : i \in 1..Len(seq)}

\* The concatenation of a sequence of sequences
RECURSIVE Flatten(_)
Flatten(seqs) == IF Len(seqs) = 0 THEN <<>> ELSE seqs[1] \o Flatten(Tail(seqs))

get_paragraph(text) == [kind |-> "Paragraph", style |-> "TableCell", text |-> text]

spacer == [kind |-> "Spacer", width |-> 1, height |-> 12]

\* The first loop of get_events_by_date: the events under their date string,
\* dates in the order they are first seen
RECURSIVE GroupByDate(_)
GroupByDate(events) ==
    IF Len(events) = 0 THEN <<>>
    ELSE LET before == GroupByDate(SubSeq(events, 1, Len(events) - 1))
             event == events[Len(events)]
             date_str == get_date(event.date)
         IN IF HasKey(before, date_str)
            THEN [before EXCEPT ![IndexOf(before, date_str)].value = Append(@, event)]
            ELSE Append(before, [key |-> date_str, value |-> <<event>>])

get_events_by_date(events) ==
    LET events_by_date == GroupByDate(events)
    IN [i \in 1..Len(events_by_date) |->
           [key |-> events_by_date[i].key,
            value |-> get_events_sorted_by_time(events_by_date[i].value)]]

get_event_duration(event) ==
    get_time(event.start_time) \o <<" ", "-", " ">> \o get_time(event.end_time)

\* The blocks one date contributes: an iteration of build_schedule_pdf's loop.
\* The callable get_event is a function on the events of the document.
DateBlocks(date_str, events_on_same_date, get_event, col_widths) ==
    LET table_data == Flatten([i \in 1..Len(events_on_same_date) |->
                                   get_event[events_on_same_date[i]]])
        header == [kind |-> "Date", text |-> date_str]
    IN IF Len(table_data) = 0 THEN <<header>>
       ELSE <<header,
              [kind |-> "Table", data |-> table_data, colWidths |-> col_widths],
              spacer>>

build_schedule_pdf(title, events_by_date, get_event, col_widths) ==
    <<[kind |-> "Title", text |-> title], spacer>>
    \o Flatten([i \in 1..Len(events_by_date) |->
                   DateBlocks(events_by_date[i].key, events_by_date[i].value,
                              get_event, col_widths)])

get_person_in_event_all_filled(index, event, person) ==
    <<get_event_duration(event), event.name, get_paragraph(person.name),
      get_paragraph(person.group), event.place>>

get_person_in_event(index, event, person) ==
    IF index = 0
    THEN <<get_event_duration(event), event.name, get_paragraph(person.name),
           get_paragraph(person.group), event.place>>
    ELSE <<<<>>, "", get_paragraph(person.name), get_paragraph(person.group), "">>

\* get_event of build_overall_schedule_pdf: the attendee rows and an empty
\* row for spacing
overall_get_event(event) ==
    [i \in 1..Len(event.people) |->
        get_person_in_event(i - 1, event, event.people[i])] \o << <<>> >>

build_overall_schedule_pdf(events) ==
    build_schedule_pdf("Aikataulu", get_events_by_date(events),
                       [event \in Range(events) |-> overall_get_event(event)],
                       <<80, 174, 90, 100, 80>>)

\* get_event of build_personal_schedule_pdf
personal_get_event(event) ==
    << <<get_event_duration(event), get_paragraph(event.name),
         get_paragraph(event.group), event.place>> >>

build_personal_schedule_pdf(person_name, events) ==
    build_schedule_pdf(person_name, get_events_by_date(events),
                       [event \in Range(events) |-> personal_get_event(event)],
                       <<80, 225, 120, 100>>)

----------------------------------------------------------------------------
(* The input files considered *)

Str_0106_0900 == <<"0","1","/","0","6","/","2","0","2","4"," ","0","9",".","0","0">>
Str_0106_0930 == <<"0","1","/","0","6","/","2","0","2","4"," ","0","9",".","3","0">>
Str_0106_1000 == <<"0","1","/","0","6","/","2","0","2","4"," ","1","0",".","0","0">>
Str_0106_1100 == <<"0","1","/","0","6","/","2","0","2","4"," ","1","1",".","0","0">>
Str_0206_0900 == <<"0","2","/","0","6","/","2","0","2","4"," ","0","9",".","0","0">>
Str_0206_1000 == <<"0","2","/","0","6","/","2","0","2","4"," ","1","0",".","0","0">>
\* written without leading zeros
Str_16_900 == <<"1","/","6","/","2","0","2","4"," ","9",".","0","0">>
\* written with a colon between hour and minute
Colon_0106_0900 == <<"0","1","/","0","6","/","2","0","2","4"," ","0","9",":","0","0">>
Colon_0106_1000 == <<"0","1","/","0","6","/","2","0","2","4"," ","1","0",":","0","0">>
\* written year first
Iso_0106_0900 == <<"2","0","2","4","-","0","6","-","0","1"," ","0","9",":","0","0">>
Iso_0106_1000 == <<"2","0","2","4","-","0","6","-","0","1"," ","1","0",":","0","0">>

\* A row as csv.DictReader yields it: a mapping from the header's names
Row(event, person, group, place, start, end) ==
    [Event |-> event, Person |-> person, Group |-> group, Place |-> place]
    @@ ("Start time" :> start) @@ ("End time" :> end)

InputRows ==
    { Row("Keynote",  "Alice", "A", "Hall1", Str_0106_0900, Str_0106_1000),
      Row("Keynote",  "Bob",   "B", "Hall1", Str_0106_0900, Str_0106_1000),
      Row("Opening",  "Alice", "A", "Hall1", Str_0106_0930, Str_0106_1100),
      Row("Opening",  "Bob",   "B", "Hall1", Str_0106_0900, Str_0106_1000),
      Row("Keynote",  "Alice", "A", "Hall1", Str_0206_0900, Str_0206_1000),
      Row("Workshop", "Alice", "B", "Hall2", Str_0106_0900, Str_0106_1100),
      Row("Keynote",  "Alice", "C", "Hall1", Str_16_900, Str_0106_1000),
      Row("Keynote",  "Bob",   "B", "Hall1", Colon_0106_0900, Colon_0106_1000),
      Row("Keynote",  "Alice", "A", "Hall1", Iso_0106_0900, Iso_0106_1000),
      Row("Opening",  "Bob",   "B", "Hall1", Str_0106_0900, Colon_0106_1000) }

RECURSIVE SeqsUpTo(_, _)
SeqsUpTo(S, n) ==
    IF n = 0 THEN {<<>>}
    ELSE LET shorter == SeqsUpTo(S, n - 1)
         IN shorter \cup {Append(q, x) : q \in shorter, x \in S}

----------------------------------------------------------------------------
(* The main sequence *)

Init ==
    /\ input_file \in SeqsUpTo(InputRows, MaxRows)
    /\ pc = "start"
    /\ row_idx = 0
    /\ events_by_name = <<>>
    /\ schedules_by_person = <<>>
    /\ all_events = <<>>
    /\ personal_schedules = <<>>
    /\ folder_created = FALSE
    /\ files = <<>>
    /\ written_idx = 0
    /\ error = "none"

Raise(exception) ==
    /\ pc' = "failed"
    /\ error' = exception

\* get_schedules opens the input file and reads its header
OpenInput ==
    /\ pc = "start"
    /\ \/ pc' = "rows" /\ error' = error
       \/ Raise("OSError")
    /\ UNCHANGED <<input_file, row_idx, events_by_name, schedules_by_person,
                   all_events, personal_schedules, folder_created, files,
                   written_idx>>

\* The fields get_schedules takes from a row, or ok = FALSE when get_datetime
\* raises ValueError
ParseRow(row) ==
    LET event_datetime == get_datetime(row["Start time"])
        end_datetime == get_datetime(row["End time"])
    IN IF ~event_datetime.ok \/ ~end_datetime.ok THEN [ok |-> FALSE]
       ELSE [ok |-> TRUE,
             event_date |-> DateOf(event_datetime.got),
             start_time |-> TimeOf(event_datetime.got),
             end_time |-> TimeOf(end_datetime.got),
             place |-> row.Place, person |-> row.Person,
             group |-> row.Group, event_name |-> row.Event]

\* ParseRow of each row an input file can hold, evaluated once
Parsed == [row \in InputRows |-> ParseRow(row)]

\* One iteration of get_schedules' loop over the rows, tolerating bad rows
ReadRow_skip_malformed ==
    /\ pc = "rows"
    /\ row_idx < Len(input_file)
    /\ LET r == Parsed[input_file[row_idx + 1]]
       IN IF ~r.ok
          THEN UNCHANGED <<events_by_name, schedules_by_person>>
          ELSE /\ events_by_name' =
                     add_event(r.event_name, events_by_name, r.person, r.group,
                               r.event_date, r.start_time, r.end_time, r.place)
               /\ schedules_by_person' =
                     add_personal_event(r.event_name, schedules_by_person,
                                        r.person, r.group, r.event_date,
                                        r.start_time, r.end_time, r.place)
    /\ row_idx' = row_idx + 1
    /\ UNCHANGED <<pc, error, input_file, all_events, personal_schedules,
                   folder_created, files, written_idx>>

\* One iteration of get_schedules' loop over the rows
ReadRow ==
    /\ pc = "rows"
    /\ row_idx < Len(input_file)
    /\ LET r == Parsed[input_file[row_idx + 1]]
       IN IF ~r.ok
          THEN /\ Raise("ValueError")
               /\ UNCHANGED <<row_idx, events_by_name, schedules_by_person>>
          ELSE /\ events_by_name' =
                     add_event(r.event_name, events_by_name, r.person, r.group,
                               r.event_date, r.start_time, r.end_time, r.place)
               /\ schedules_by_person' =
                     add_personal_event(r.event_name, schedules_by_person,
                                        r.person, r.group, r.event_date,
                                        r.start_time, r.end_time, r.place)
               /\ row_idx' = row_idx + 1
               /\ UNCHANGED <<pc, error>>
    /\ UNCHANGED <<input_file, all_events, personal_schedules, folder_created,
                   files, written_idx>>

\* get_schedules returns once the rows are exhausted
ReturnSchedules ==
    /\ pc = "rows"
    /\ row_idx = Len(input_file)
    /\ all_events' = Values(events_by_name)
    /\ personal_schedules' = ScheduleResult(schedules_by_person)
    /\ pc' = "parsed"
    /\ UNCHANGED <<input_file, row_idx, events_by_name, schedules_by_person,
                   folder_created, files, written_idx, error>>

\* os.makedirs(args.output_folder, exist_ok=True)
MakeDirs ==
    /\ pc = "parsed"
    /\ \/ folder_created' = TRUE /\ pc' = "dir" /\ error' = error
       \/ Raise("OSError") /\ folder_created' = folder_created
    /\ UNCHANGED <<input_file, row_idx, events_by_name, schedules_by_person,
                   all_events, personal_schedules, files, written_idx>>

\* create_pdf: the document is written, or the file cannot be created
create_pdf(elements, output_path) ==
    \/ files' = Append(files, [path |-> output_path, elements |-> elements])
       /\ error' = error
    \/ files' = files /\ error' = "OSError"

WriteOverall ==
    /\ pc = "dir"
    /\ create_pdf(build_overall_schedule_pdf(all_events), <<"schedule", ".pdf">>)
    /\ pc' = IF error' = "none" THEN "persons" ELSE "failed"
    /\ UNCHANGED <<input_file, row_idx, events_by_name, schedules_by_person,
                   all_events, personal_schedules, folder_created, written_idx>>

\* One iteration of the loop over personal_schedules
WritePersonal ==
    /\ pc = "persons"
    /\ written_idx < Len(personal_schedules)
    /\ LET schedule == personal_schedules[written_idx + 1]
           person == schedule.person
       IN create_pdf(build_personal_schedule_pdf(person, schedule.events),
                     <<person, ".pdf">>)
    /\ IF error' = "none"
       THEN pc' = pc /\ written_idx' = written_idx + 1
       ELSE pc' = "failed" /\ written_idx' = written_idx
    /\ UNCHANGED <<input_file, row_idx, events_by_name, schedules_by_person,
                   all_events, personal_schedules, folder_created>>

\* The loop ends and the program exits
Finish ==
    /\ pc = "persons"
    /\ written_idx = Len(personal_schedules)
    /\ pc' = "done"
    /\ UNCHANGED <<input_file, row_idx, events_by_name, schedules_by_person,
                   all_events, personal_schedules, folder_created, files,
                   written_idx, error>>

Next ==
    \/ OpenInput
    \/ ReadRow
    \/ ReturnSchedules
    \/ MakeDirs
    \/ WriteOverall
    \/ WritePersonal
    \/ Finish

Spec == Init /\ [][Next]_vars

----------------------------------------------------------------------------
(* Vocabulary of the properties *)

\* get_schedules has returned and the run has not failed since
Returned == pc \in {"parsed", "dir", "persons", "done"}

\* The indices of the rows read so far
Processed == 1..row_idx

Count(S) == Cardinality(S)

\* Calendar order of dates and clock order of times, field by field
DateBefore(d1, d2) ==
    \/ d1[1] < d2[1]
    \/ d1[1] = d2[1] /\ d1[2] < d2[2]
    \/ d1[1] = d2[1] /\ d1[2] = d2[2] /\ d1[3] < d2[3]

TimeBefore(t1, t2) == t1[1] < t2[1] \/ (t1[1] = t2[1] /\ t1[2] < t2[2])

\* e1 is not later than e2 by (date, startTime)
NotLater(e1, e2) ==
    \/ DateBefore(e1.date, e2.date)
    \/ e1.date = e2.date /\ ~TimeBefore(e2.start_time, e1.start_time)

SameMoment(e1, e2) == e1.date = e2.date /\ e1.start_time = e2.start_time

\* The personal event a row stands for
PersonalEventOf(row) ==
    LET r == Parsed[row]
    IN [name |-> r.event_name, date |-> r.event_date,
        start_time |-> r.start_time, end_time |-> r.end_time,
        place |-> r.place, group |-> r.group]

\* The identity of the aggregated event a row belongs to
IdentityOf(row) ==
    LET r == Parsed[row]
    IN <<r.event_name, r.event_date, r.start_time, r.end_time, r.place>>

IdentityOfEvent(e) == <<e.name, e.date, e.start_time, e.end_time, e.place>>

RowsOfPerson(person, upto) == {i \in 1..upto : input_file[i].Person = person}

Orderings(n) ==
    {f \in [1..n -> 1..n] : \A i, j \in 1..n : f[i] = f[j] => i = j}

----------------------------------------------------------------------------
(* C1 *)

\* C1: once get_schedules has returned, its personal-schedule output holds
\* exactly one PersonalSchedule per distinct person name of the input (none
\* missing, none twice, none for a name that does not occur), and the number
\* of events of a person's schedule is the number of input rows whose Person
\* is that name, duplicated rows counted.
C1_OneSchedulePerPerson ==
    Returned =>
        /\ \A i \in 1..Len(input_file) :
              \E j \in 1..Len(personal_schedules) :
                  personal_schedules[j].person = input_file[i].Person
        /\ \A j, k \in 1..Len(personal_schedules) :
              personal_schedules[j].person = personal_schedules[k].person => j = k
        /\ \A j \in 1..Len(personal_schedules) :
              /\ Len(personal_schedules[j].events) >= 1
              /\ Len(personal_schedules[j].events) =
                    Count(RowsOfPerson(personal_schedules[j].person, Len(input_file)))

\* Two persons, one of them with the same row twice
C1_Witness ==
    /\ Returned
    /\ Len(input_file) = 3
    /\ input_file[1] = input_file[2]
    /\ input_file[3].Person # input_file[1].Person
    /\ Len(personal_schedules) = 2
    /\ Len(personal_schedules[1].events) = 2

----------------------------------------------------------------------------
(* C7 *)

\* C7: each PersonalSchedule's events are that person's input rows, each
\* exactly once, in ascending order of (date, startTime) with the date
\* deciding first, and rows with equal (date, startTime) keep the order they
\* have in the input.
C7_SortedStablePermutation ==
    Returned =>
        \A j \in 1..Len(personal_schedules) :
            LET events == personal_schedules[j].events
                mine == RowsOfPerson(personal_schedules[j].person, Len(input_file))
            IN \E f \in [1..Len(events) -> mine] :
                  /\ \A k, l \in 1..Len(events) : f[k] = f[l] => k = l
                  /\ \A i \in mine : \E k \in 1..Len(events) : f[k] = i
                  /\ \A k \in 1..Len(events) :
                        events[k] = PersonalEventOf(input_file[f[k]])
                  /\ \A k, l \in 1..Len(events) :
                        k < l =>
                          /\ NotLater(events[k], events[l])
                          /\ SameMoment(events[k], events[l]) => f[k] < f[l]

\* A schedule of three rows: the first row of the input is on the later date
\* and comes last, the other two start at the same moment and keep their order
C7_Witness ==
    /\ Returned
    /\ Len(input_file) = 3
    /\ \E j \in 1..Len(personal_schedules) :
          LET events == personal_schedules[j].events
          IN /\ Len(events) = 3
             /\ events[3] = PersonalEventOf(input_file[1])
             /\ events[1] = PersonalEventOf(input_file[2])
             /\ events[2] = PersonalEventOf(input_file[3])
             /\ SameMoment(events[1], events[2])
             /\ events[1] # events[2]
             /\ DateBefore(events[2].date, events[3].date)
             /\ ~TimeBefore(events[2].start_time, events[3].start_time)

----------------------------------------------------------------------------
(* C10 *)

RECURSIVE SumLen(_)
SumLen(seqs) == IF Len(seqs) = 0 THEN 0 ELSE Len(seqs[1]) + SumLen(Tail(seqs))

Attendees == [i \in 1..Len(events_by_name) |-> events_by_name[i].value.people]

PersonalLists == Values(schedules_by_person)

\* C10: after every row read, each row read so far has contributed exactly
\* one (person, group) entry to the aggregated event of its (eventName, date,
\* startTime, endTime, place) and exactly one personal event with those five
\* fields and its group to its person's list, nothing deduplicated: every
\* entry of either view occurs as often as the rows that give it, and the
\* attendee entries, the personal events and the rows read are equally many.
C10_ViewsConsistent ==
    /\ SumLen(Attendees) = row_idx
    /\ SumLen(PersonalLists) = row_idx
    /\ \A i \in Processed :
          LET row == input_file[i]
              alike == {k \in Processed : input_file[k] = row}
          IN /\ \E a \in 1..Len(events_by_name) :
                   LET e == events_by_name[a].value
                   IN /\ IdentityOfEvent(e) = IdentityOf(row)
                      /\ Count({x \in 1..Len(e.people) :
                                  e.people[x] = [name |-> row.Person,
                                                 group |-> row.Group]})
                         = Count({k \in Processed :
                                    /\ IdentityOf(input_file[k]) = IdentityOf(row)
                                    /\ input_file[k].Person = row.Person
                                    /\ input_file[k].Group = row.Group})
             /\ \E b \in 1..Len(schedules_by_person) :
                   LET list == schedules_by_person[b].value
                   IN /\ schedules_by_person[b].key = row.Person
                      /\ Count({x \in 1..Len(list) : list[x] = PersonalEventOf(row)})
                         = Count({k \in Processed :
                                    /\ input_file[k].Person = row.Person
                                    /\ PersonalEventOf(input_file[k]) =
                                          PersonalEventOf(row)})

\* The Keynote rows of Alice and of Bob, and Alice's a second time: one
\* aggregated event of three attendees, two personal lists
C10_Witness ==
    /\ row_idx = 3
    /\ Len(events_by_name) = 1
    /\ Len(events_by_name[1].value.people) = 3
    /\ events_by_name[1].value.name = "Keynote"
    /\ input_file[1] = input_file[3]
    /\ Len(schedules_by_person) = 2
    /\ Len(schedules_by_person[1].value) = 2
    /\ Len(schedules_by_person[2].value) = 1

----------------------------------------------------------------------------
(* C8 *)

\* The aggregation of a sequence of well-formed rows, from the empty dict
RECURSIVE Aggregate(_)
Aggregate(rows) ==
    IF Len(rows) = 0 THEN <<>>
    ELSE LET r == Parsed[rows[Len(rows)]]
         IN add_event(r.event_name, Aggregate(SubSeq(rows, 1, Len(rows) - 1)),
                      r.person, r.group, r.event_date, r.start_time,
                      r.end_time, r.place)

\* How often each (person, group) occurs among the attendees
Multiset(people) ==
    [pg \in {people[i] : i \in 1..Len(people)} |->
        Count({i \in 1..Len(people) : people[i] = pg})]

\* The aggregated events without their order, attendees as a multiset
Unordered(events) ==
    {<<IdentityOfEvent(events[i]), Multiset(events[i].people)>> :
        i \in 1..Len(events)}

\* C8: the aggregated events get_schedules returns, taken as a set of (name,
\* date, startTime, endTime, place) with the attendees of each as a multiset
\* of (person, group), are those of every reordering of the input rows.
C8_AggregationOrderIndependent ==
    Returned =>
        \A f \in Orderings(Len(input_file)) :
            LET permuted == [i \in 1..Len(input_file) |-> input_file[f[i]]]
            IN /\ Unordered(Values(Aggregate(permuted))) = Unordered(all_events)
               /\ Len(Aggregate(permuted)) = Len(all_events)

\* Three rows of two events of which a reordering yields the events and the
\* attendees of one of them in another order
C8_Witness ==
    /\ Returned
    /\ Len(input_file) = 3
    /\ Len(all_events) = 2
    /\ \E f \in Orderings(3) :
          LET permuted == [i \in 1..3 |-> input_file[f[i]]]
              other == Values(Aggregate(permuted))
          IN /\ IdentityOfEvent(other[1]) = IdentityOfEvent(all_events[2])
             /\ Len(other[1].people) = 2
             /\ other[1].people # all_events[2].people

----------------------------------------------------------------------------
(* C6 *)

\* The rows read so far of the same event name, date and place as event e
SameNameDatePlace(e) ==
    {k \in Processed :
        LET r == Parsed[input_file[k]]
        IN r.event_name = e.name /\ r.event_date = e.date /\ r.place = e.place}

\* C6 as stated: every aggregated event spans from the earliest start to the
\* latest end of the rows read for its event (name, date, place), and those
\* rows are merged into one aggregated event, as the two "Opening" rows
\* 09:00-10:00 and 09:30-11:00 are into one spanning 09:00-11:00.
C6_SpanIsMinMax ==
    /\ \A a \in 1..Len(events_by_name) :
          LET e == events_by_name[a].value
          IN \A k \in SameNameDatePlace(e) :
                /\ ~TimeBefore(Parsed[input_file[k]].start_time, e.start_time)
                /\ ~TimeBefore(e.end_time, Parsed[input_file[k]].end_time)
    /\ \A a, b \in 1..Len(events_by_name) :
          LET e1 == events_by_name[a].value
              e2 == events_by_name[b].value
          IN (e1.name = e2.name /\ e1.date = e2.date /\ e1.place = e2.place)
                => a = b

\* C6 amended: the rows merged into an aggregated event are exactly the rows
\* of its (name, date, startTime, endTime, place), so its startTime and
\* endTime are those of each of them and no span is widened; rows of one
\* event name, date and place with other times make an aggregated event of
\* their own.
C6_NoWidening ==
    /\ \A a, b \in 1..Len(events_by_name) :
          IdentityOfEvent(events_by_name[a].value) =
              IdentityOfEvent(events_by_name[b].value) => a = b
    /\ \A a \in 1..Len(events_by_name) :
          LET e == events_by_name[a].value
          IN Len(e.people) =
                Count({k \in Processed : IdentityOf(input_file[k]) = IdentityOfEvent(e)})
    /\ \A k \in Processed :
          \E a \in 1..Len(events_by_name) :
              LET e == events_by_name[a].value
                  r == Parsed[input_file[k]]
              IN /\ e.name = r.event_name /\ e.date = r.event_date
                 /\ e.place = r.place
                 /\ e.start_time = r.start_time /\ e.end_time = r.end_time

\* The two "Opening" rows read, 09.30-11.00 and 09.00-10.00: two aggregated
\* events
C6_Witness ==
    /\ row_idx = 2
    /\ Len(events_by_name) = 2
    /\ events_by_name[1].value.name = "Opening"
    /\ events_by_name[2].value.name = "Opening"
    /\ events_by_name[1].value.date = events_by_name[2].value.date
    /\ events_by_name[1].value.place = events_by_name[2].value.place
    /\ events_by_name[1].value.start_time = <<9, 30>>
    /\ events_by_name[1].value.end_time = <<11, 0>>
    /\ events_by_name[2].value.start_time = <<9, 0>>
    /\ events_by_name[2].value.end_time = <<10, 0>>

----------------------------------------------------------------------------
(* C4 *)

\* Text s reads DD/MM/YYYY HH<sep>MM: two digits, a slash, two digits, a
\* slash, four digits, a space, two digits, sep, two digits, naming a day of
\* the calendar and a minute of the 24-hour clock
DayOfText(s) == 10 * DigitVal(s[1]) + DigitVal(s[2])
MonthOfText(s) == 10 * DigitVal(s[4]) + DigitVal(s[5])
YearOfText(s) ==
    1000 * DigitVal(s[7]) + 100 * DigitVal(s[8]) + 10 * DigitVal(s[9]) + DigitVal(s[10])
HourOfText(s) == 10 * DigitVal(s[12]) + DigitVal(s[13])
MinuteOfText(s) == 10 * DigitVal(s[15]) + DigitVal(s[16])

IsWritten(s, sep) ==
    /\ Len(s) = 16
    /\ \A i \in {1, 2, 4, 5, 7, 8, 9, 10, 12, 13, 15, 16} : IsDigit(s[i])
    /\ s[3] = "/" /\ s[6] = "/" /\ s[11] = " " /\ s[14] = sep
    /\ YearOfText(s) >= 1
    /\ MonthOfText(s) \in 1..12
    /\ DayOfText(s) \in 1..DaysInMonth(YearOfText(s), MonthOfText(s))
    /\ HourOfText(s) \in 0..23
    /\ MinuteOfText(s) \in 0..59

\* The row the loop of get_schedules took last: it raised on it, or added it
LastRowTaken ==
    IF pc = "failed" /\ error = "ValueError" THEN row_idx + 1 ELSE row_idx

\* The personal event added last for the person of row i
LastEventOf(i) ==
    LET list == schedules_by_person[IndexOf(schedules_by_person,
                                            input_file[i].Person)].value
    IN list[Len(list)]

\* A row whose Start time and End time are written with sep between hour and
\* minute is accepted and gives the date and startTime of its Start time and
\* the endTime of its End time
AcceptsWritten(sep) ==
    LastRowTaken >= 1 =>
        LET row == input_file[LastRowTaken]
            start == row["Start time"]
            end == row["End time"]
        IN (IsWritten(start, sep) /\ IsWritten(end, sep)) =>
              /\ LastRowTaken = row_idx
              /\ LastEventOf(row_idx).date =
                    <<YearOfText(start), MonthOfText(start), DayOfText(start)>>
              /\ LastEventOf(row_idx).start_time =
                    <<HourOfText(start), MinuteOfText(start)>>
              /\ LastEventOf(row_idx).end_time =
                    <<HourOfText(end), MinuteOfText(end)>>

\* C4 as stated: a Start time / End time written DD/MM/YYYY HH:MM, with a
\* colon between hour and minute, is accepted and yields its day/month/year
\* as date, the start's hour:minute as startTime and the end's as endTime.
C4_AcceptsColon == AcceptsWritten(":")

\* C4 amended: a Start time / End time written DD/MM/YYYY HH.MM, with a full
\* stop between hour and minute, is accepted and yields its day/month/year
\* as date, the start's hour.minute as startTime and the end's as endTime.
C4_AcceptsFullStop == AcceptsWritten(".")

\* The row "01/06/2024 09.30" to "01/06/2024 11.00" has been read
C4_Witness ==
    /\ row_idx >= 1
    /\ LastRowTaken = row_idx
    /\ input_file[row_idx]["Start time"] = Str_0106_0930
    /\ input_file[row_idx]["End time"] = Str_0106_1100
    /\ LastEventOf(row_idx).date = <<2024, 6, 1>>
    /\ LastEventOf(row_idx).start_time = <<9, 30>>
    /\ LastEventOf(row_idx).end_time = <<11, 0>>

----------------------------------------------------------------------------
(* C5 *)

Malformed(row) == ~Parsed[row].ok

FirstMalformed ==
    CHOOSE i \in 1..Len(input_file) :
        /\ Malformed(input_file[i])
        /\ \A k \in 1..(i - 1) : ~Malformed(input_file[k])

\* C5: when a row of the input has a Start time or End time that does not
\* match the pattern, the run never gets past get_schedules, however many
\* well-formed rows precede that row: the loop does not read beyond it, the
\* only exception of the loop is raised at it, the output folder is not
\* created and no document is written.
C5_MalformedRowNoOutput ==
    (\E i \in 1..Len(input_file) : Malformed(input_file[i])) =>
        /\ pc \in {"start", "rows", "failed"}
        /\ row_idx < FirstMalformed
        /\ (pc = "failed" /\ error = "ValueError") => row_idx + 1 = FirstMalformed
        /\ ~folder_created
        /\ files = <<>>

\* The run has failed at the third row, after two well-formed rows
C5_Witness ==
    /\ pc = "failed"
    /\ error = "ValueError"
    /\ row_idx = 2
    /\ Len(schedules_by_person) >= 1
    /\ Malformed(input_file[3])
    /\ ~folder_created
    /\ files = <<>>

----------------------------------------------------------------------------
(* Written documents *)

IsOverall(file) == file.path = <<"schedule", ".pdf">>

\* The events a written document was built from
SourceOf(file) ==
    IF IsOverall(file) THEN all_events
    ELSE LET j == CHOOSE j \in 1..Len(personal_schedules) :
                      personal_schedules[j].person = file.path[1]
         IN personal_schedules[j].events

\* The rows of the tables of a document, in document order
TableRows(elements) ==
    Flatten([i \in 1..Len(elements) |->
                IF elements[i].kind = "Table" THEN elements[i].data ELSE <<>>])

\* The positions of the date headers of a document
HeaderPositions(elements) == {i \in 1..Len(elements) : elements[i].kind = "Date"}

----------------------------------------------------------------------------
(* C9 *)

\* The rows an aggregated event of n attendees is to contribute: one per
\* attendee in attendee order, the first with duration, name and place, the
\* later ones with these blank, and one empty row
OverallRowsOf(e) ==
    [i \in 1..(Len(e.people) + 1) |->
        IF i = Len(e.people) + 1 THEN <<>>
        ELSE <<IF i = 1 THEN get_event_duration(e) ELSE <<>>,
               IF i = 1 THEN e.name ELSE "",
               get_paragraph(e.people[i].name),
               get_paragraph(e.people[i].group),
               IF i = 1 THEN e.place ELSE "">>]

\* The row a personal event is to contribute
PersonalRowOf(e) ==
    <<get_event_duration(e), get_paragraph(e.name), get_paragraph(e.group), e.place>>

\* C9: the rows of the tables of the written overall schedule are, for the
\* aggregated events in some order, the n+1 consecutive rows of each event
\* of n attendees (attendee rows in attendee order, only the first carrying
\* duration, name and place, then one empty row); the rows of the tables of
\* a written personal schedule are one row (duration, name, group, place)
\* per event of the schedule, in the schedule's order.
C9_TableRows ==
    \A k \in 1..Len(files) :
        LET rows == TableRows(files[k].elements)
            source == SourceOf(files[k])
        IN IF IsOverall(files[k])
           THEN \E f \in Orderings(Len(source)) :
                   rows = Flatten([i \in 1..Len(source) |-> OverallRowsOf(source[f[i]])])
           ELSE rows = [i \in 1..Len(source) |-> PersonalRowOf(source[i])]

\* An overall schedule with an event of two attendees and another event,
\* and a personal schedule of two events, have been written
C9_Witness ==
    /\ Len(files) >= 2
    /\ IsOverall(files[1])
    /\ Len(all_events) = 2
    /\ Len(all_events[1].people) = 2
    /\ Len(TableRows(files[1].elements)) = 5
    /\ Len(SourceOf(files[2])) = 2
    /\ Len(TableRows(files[2].elements)) = 2

----------------------------------------------------------------------------
(* C2 *)

\* The calendar date a header of a document stands for
DateOfHeader(file, text) ==
    LET source == SourceOf(file)
    IN source[CHOOSE i \in 1..Len(source) : get_date(source[i].date) = text].date

\* The rows the events of a document's source on date d give, by start time
RowsOnDate(file, d) ==
    LET source == SourceOf(file)
        OnDate(e) == e.date = d
        on_date == get_events_sorted_by_time(SelectSeq(source, OnDate))
    IN Flatten([i \in 1..Len(on_date) |->
                   IF IsOverall(file) THEN overall_get_event(on_date[i])
                   ELSE personal_get_event(on_date[i])])

HeadersAscending(file) ==
    \A i, j \in HeaderPositions(file.elements) :
        i < j => DateBefore(DateOfHeader(file, file.elements[i].text),
                            DateOfHeader(file, file.elements[j].text))

OneHeaderPerDate(file) ==
    \A i, j \in HeaderPositions(file.elements) :
        file.elements[i].text = file.elements[j].text => i = j

HeadersHaveTables(file) ==
    \A i \in HeaderPositions(file.elements) :
        /\ i + 1 <= Len(file.elements)
        /\ file.elements[i + 1].kind = "Table"
        /\ Len(file.elements[i + 1].data) > 0
        /\ file.elements[i + 1].data =
              RowsOnDate(file, DateOfHeader(file, file.elements[i].text))

\* C2: in every written document, overall or personal, the date headers are
\* in ascending calendar order, no date has two headers, and each header is
\* followed by a non-empty table of the rows of the events on its date.
C2_DateGroupsAscending ==
    \A k \in 1..Len(files) :
        /\ HeadersAscending(files[k])
        /\ OneHeaderPerDate(files[k])
        /\ HeadersHaveTables(files[k])

----------------------------------------------------------------------------
(* C3 *)

\* C3: a run that has ended has written no document when it failed, and
\* schedule.pdf and every person's document when it did not.
C3_AllOrNothing ==
    /\ pc = "failed" => files = <<>>
    /\ pc = "done" => Len(files) = 1 + Len(personal_schedules)

====
